---- MODULE Spec2Model ----
(***************************************************************************)
(* Retrieval and ranking logic of the RAG service:                         *)
(*   - search_vector        (src/app.py, POST /api/search/vector)          *)
(*   - RAGServiceSQL.search_suggestions and RAGServiceSQL.chat             *)
(*                          (src/rag_service_sql.py)                       *)
(*   - the /chat and /chat/suggestions endpoints (src/rag_main_sql.py)     *)
(*                                                                         *)
(* A similarity is kept exactly, as the signed square of the cosine        *)
(* (sign(dot) * dot^2 over |a|^2 * |b|^2); x |-> sign(x) * x^2 is strictly *)
(* increasing, so every comparison the code makes between similarities or  *)
(* between a similarity and a threshold is decided by cross               *)
(* multiplication.  The vectors of the model are chosen so that the        *)
(* floating point results of the code compare the same way.                *)
(***************************************************************************)
EXTENDS Integers, Sequences, FiniteSets, TLC

\* Largest number of rows of the searched table.
MaxRows == 3

\* Largest number of components of a vector handed to a scorer on its own.
MaxDim == 2

\* Largest number of rows of a long table.
MaxLongRows == 11
MaxSheetRows == 4

\* ChatRequest.top_k, SuggestionsRequest.top_k: le=20
MaxTopK == 20

\* RAGServiceSQL.chat: has_multiple_matches = len(filtered_results) >= 3
MinMatchesChat == 3

\* RAGServiceSQL.chat: filtered_results[:10]
MaxSuggestionsChat == 10

\* search_vector: SELECT TOP (top_n * 4) on the VectorJson path
OversampleSearchVector == 4

\* chat, search_suggestions: SELECT TOP (top_k * 2) on the VECTOR_DISTANCE path
OversampleService == 2

\* supports_vector = version_major >= 16
VectorMajorVersion == 16

Min(a, b) == IF a <= b THEN a ELSE b

(***************************************************************************)
(* Column values.  A column value is NULL, a vector, or (VectorJson only)  *)
(* a text that json.loads rejects, or a JSON number (json.loads accepts it *)
(* and yields a non-zero number, not a list).                              *)
(***************************************************************************)
NullV == [k |-> "null", v |-> <<>>]
BadJson == [k |-> "bad", v |-> <<>>]
ScalarJson == [k |-> "scalar", v |-> <<>>]
Vec(v) == [k |-> "vec", v |-> v]

VecA == <<1, 0>>
VecB == <<0, 1>>
VecC == <<1, 1>>
VecShort == <<1>>

\* The embedding of the query text (the embedding provider is a black box).
QueryVector == <<1, 0>>

\* app.py EMBEDDING_DIMENSION / RAGServiceSQL.embedding_dimension: the dimension
\* of the deployment's embeddings, here that of the model's vectors.
EMBEDDING_DIMENSION == Len(QueryVector)

(***************************************************************************)
(* Similarity scorer.                                                      *)
(***************************************************************************)
RECURSIVE SumProd(_, _, _)
SumProd(a, b, i) ==
    IF i = 0 THEN 0 ELSE a[i] * b[i] + SumProd(a, b, i - 1)

Dot(a, b) == SumProd(a, b, Min(Len(a), Len(b)))

\* Sgn without the negative case.
SgnUnsigned(x) == IF x # 0 THEN 1 ELSE 0

Sgn(x) == IF x > 0 THEN 1 ELSE IF x < 0 THEN -1 ELSE 0

ZeroSim == [ss |-> 0, d |-> 1]

\* cosine_similarity without the comparison of the lengths: zip pairs the
\* components up to the shorter length.
cosine_similarity_unchecked(vec1, vec2) ==
    LET dot == Dot(vec1, vec2)
        m1 == Dot(vec1, vec1)
        m2 == Dot(vec2, vec2)
    IN IF m1 = 0 \/ m2 = 0 THEN ZeroSim
       ELSE [ss |-> Sgn(dot) * dot * dot, d |-> m1 * m2]

\* cosine_similarity without the test of the magnitudes: the quotient is taken
\* whatever the divisor.
cosine_similarity_undivided(vec1, vec2) ==
    IF Len(vec1) # Len(vec2) THEN ZeroSim
    ELSE LET dot == Dot(vec1, vec2)
             m1 == Dot(vec1, vec1)
             m2 == Dot(vec2, vec2)
         IN [ss |-> Sgn(dot) * dot * dot, d |-> m1 * m2]

\* cosine_similarity (app.py): 0.0 on a length mismatch or a zero magnitude,
\* else dot / (|a| * |b|).
cosine_similarity(vec1, vec2) ==
    IF Len(vec1) # Len(vec2) THEN ZeroSim
    ELSE LET dot == Dot(vec1, vec2)
             m1 == Dot(vec1, vec1)
             m2 == Dot(vec2, vec2)
         IN IF m1 = 0 \/ m2 = 0 THEN ZeroSim
            ELSE [ss |-> Sgn(dot) * dot * dot, d |-> m1 * m2]

\* RAGServiceSQL._cosine_similarity: the same statements.
RAGServiceSQL_cosine_similarity(vec1, vec2) ==
    IF Len(vec1) # Len(vec2) THEN ZeroSim
    ELSE LET dot == Dot(vec1, vec2)
             m1 == Dot(vec1, vec1)
             m2 == Dot(vec2, vec2)
         IN IF m1 = 0 \/ m2 = 0 THEN ZeroSim
            ELSE [ss |-> Sgn(dot) * dot * dot, d |-> m1 * m2]

\* s1 >= s2 on similarities.
SimGE(s1, s2) == s1.ss * s2.d >= s2.ss * s1.d
SimGT(s1, s2) == s1.ss * s2.d > s2.ss * s1.d

\* A threshold n/d in [0, 1], as a similarity.
ThrSim(t) == [ss |-> t.n * t.n, d |-> t.d * t.d]

\* Passes with an exclusive comparison.
PassesStrict(sim, t) == SimGT(sim, ThrSim(t))

\* similarity >= similarity_threshold
Passes(sim, t) == SimGE(sim, ThrSim(t))

(***************************************************************************)
(* Ranking helpers.                                                        *)
(***************************************************************************)
Take(s, n) == SubSeq(s, 1, Min(n, Len(s)))

RECURSIVE SelectSeq2(_, _)
\* [r for r in s if r["id"] in S]
SelectSeq2(s, S) ==
    IF s = <<>> THEN <<>>
    ELSE LET rest == SelectSeq2(Tail(s), S)
         IN IF Head(s).id \in S THEN <<Head(s)>> \o rest ELSE rest

RECURSIVE FilterThreshold(_, _)
\* [r for r in s if r["similarity"] >= t]
FilterThreshold(s, t) ==
    IF s = <<>> THEN <<>>
    ELSE LET rest == FilterThreshold(Tail(s), t)
         IN IF Passes(Head(s).sim, t) THEN <<Head(s)>> \o rest ELSE rest

\* InsertDesc putting x in front of the elements that equal it.
InsertDescUnstable(s, x) ==
    LET k == Cardinality({i \in 1..Len(s) : SimGT(s[i].sim, x.sim)})
    IN SubSeq(s, 1, k) \o <<x>> \o SubSeq(s, k + 1, Len(s))

\* x goes behind every element whose similarity is >= its own: equal keys keep
\* their order.
InsertDesc(s, x) ==
    LET k == Cardinality({i \in 1..Len(s) : SimGE(s[i].sim, x.sim)})
    IN SubSeq(s, 1, k) \o <<x>> \o SubSeq(s, k + 1, Len(s))

\* SortDesc without the sort.
SortDescSkipped(s) == s

RECURSIVE SortDesc(_)
\* list.sort(key=lambda x: x["similarity"], reverse=True): stable, descending.
SortDesc(s) ==
    IF s = <<>> THEN <<>>
    ELSE InsertDesc(SortDesc(SubSeq(s, 1, Len(s) - 1)), s[Len(s)])

IsSortedDesc(s) ==
    \A i \in 1..Len(s) : \A j \in 1..Len(s) : i < j => SimGE(s[i].sim, s[j].sim)

(***************************************************************************)
(* Storage.  A table is a schema and its rows in clustered (ID) order; ID   *)
(* is IDENTITY(1,1), so the ID of a row is its position.                    *)
(*   embType : "none" (no Embedding column), "vector" (Embedding VECTOR(n)) *)
(*             or "other" (a column named Embedding of another type)        *)
(*   hasVJ   : the table has a VectorJson column                            *)
(*   major   : major version of the server                                  *)
(***************************************************************************)
Schemas ==
    { [exists |-> FALSE, embType |-> "none",   hasVJ |-> FALSE, major |-> 17],
      [exists |-> TRUE,  embType |-> "none",   hasVJ |-> FALSE, major |-> 17],
      [exists |-> TRUE,  embType |-> "none",   hasVJ |-> TRUE,  major |-> 15],
      [exists |-> TRUE,  embType |-> "vector", hasVJ |-> TRUE,  major |-> 17],
      [exists |-> TRUE,  embType |-> "vector", hasVJ |-> FALSE, major |-> 17],
      [exists |-> TRUE,  embType |-> "other",  hasVJ |-> TRUE,  major |-> 17] }

\* What one chunk may carry: both representations, VectorJson only, neither,
\* an undecodable VectorJson, a VectorJson of another dimension, a VectorJson
\* that is a number.
RowTemplates ==
    { [emb |-> Vec(VecA), vj |-> Vec(VecA)],
      [emb |-> Vec(VecB), vj |-> Vec(VecB)],
      [emb |-> Vec(VecC), vj |-> Vec(VecC)],
      [emb |-> NullV,     vj |-> Vec(VecA)],
      [emb |-> NullV,     vj |-> NullV],
      [emb |-> NullV,     vj |-> BadJson],
      [emb |-> NullV,     vj |-> Vec(VecShort)],
      [emb |-> NullV,     vj |-> ScalarJson] }

\* A column the schema lacks holds nothing.
StoredRow(sch, t, i) ==
    [id  |-> i,
     emb |-> IF sch.exists /\ sch.embType = "vector" THEN t.emb ELSE NullV,
     vj  |-> IF sch.exists /\ sch.hasVJ THEN t.vj ELSE NullV]

TemplateSeqs == UNION {[1..n -> RowTemplates] : n \in 0..MaxRows}

Databases ==
    { [sch |-> sch, rows |-> [i \in 1..Len(ts) |-> StoredRow(sch, ts[i], i)]] :
        sch \in {s \in Schemas : s.exists}, ts \in TemplateSeqs }
    \cup { [sch |-> sch, rows |-> <<>>] : sch \in {s \in Schemas : ~s.exists} }

\* TableExists with the lookup skipped.
TableExistsAlways(sch) == TRUE

\* SELECT COUNT(*) FROM INFORMATION_SCHEMA.TABLES WHERE TABLE_NAME = ... > 0
TableExists(sch) == sch.exists

\* NoPopulatedRows with the count never found zero.
NoPopulatedRowsNever(rows) == FALSE

\* records_with_vectorjson == 0 / records_with_embedding == 0, rows being the
\* rows whose vector column IS NOT NULL
NoPopulatedRows(rows) == Len(rows) = 0

RECURSIVE SelectRows(_, _)
\* The rows of s whose column col ("emb" or "vj") is not NULL, in table order.
SelectRows(s, col) ==
    IF s = <<>> THEN <<>>
    ELSE LET rest == SelectRows(Tail(s), col)
         IN IF Head(s)[col].k # "null" THEN <<Head(s)>> \o rest ELSE rest

RECURSIVE Perms(_)
Perms(S) ==
    IF S = {} THEN {<<>>}
    ELSE UNION {{<<x>> \o p : p \in Perms(S \ {x})} : x \in S}

\* (1.0 - VECTOR_DISTANCE(Embedding, @q, 'COSINE')) computed by the server.
NativeCandidate(row, q) == [id |-> row.id, sim |-> cosine_similarity(row.emb.v, q)]

\* SELECT ... WHERE Embedding IS NOT NULL [AND ID IN ids]
\* ORDER BY VECTOR_DISTANCE(...) ASC: every order of the rows that is
\* non-increasing in similarity (SQL leaves the order of ties open).
VectorDistanceOrders(rows, q, ids) ==
    LET live == SelectRows(rows, "emb")
        idx == {i \in 1..Len(live) : live[i].id \in ids}
    IN { c \in { [i \in 1..Len(p) |-> NativeCandidate(live[p[i]], q)] : p \in Perms(idx) } :
           IsSortedDesc(c) }

(***************************************************************************)
(* Requests and responses.                                                 *)
(***************************************************************************)
Thr0 == [n |-> 0, d |-> 1]
ThrHalf == [n |-> 1, d |-> 2]
Thr1 == [n |-> 1, d |-> 1]
Thresholds == {Thr0, ThrHalf, Thr1}
TopKs == {1, 2}
SelectedIds == {{}, {1}, {1, 2}}

\* query : what the request carries as its query: "text" (a non-empty string),
\*         "empty" (""), "not_string" (a JSON value of another type),
\*         "missing" (a JSON object without 'query'), "no_body" (Content-Type
\*         application/json and an empty body)
\* fault : what the environment does to the request: "none", "embed" (the
\*         embedding call fails or returns no vector), "llm" (the LLM call raises)
NoReq ==
    [op |-> "none", via |-> "none", topK |-> 0, thr |-> Thr0,
     retSug |-> FALSE, sel |-> {}, multi |-> FALSE, minSug |-> 0,
     query |-> "text", fault |-> "none"]

\* One response shape for the three operations; a field an operation does not
\* return keeps the value it has here.
\*   http    : status of the HTTP response (0: the service method was called
\*             directly, not through an endpoint)
\*   raised  : the exception that left the service method, "" if none
\*   block   : chat returned a suggestions block (has_suggestions = true)
NoResp ==
    [http |-> 0, raised |-> "", error |-> "", warning |-> FALSE,
     totalRecords |-> -1, totalResults |-> -1, results |-> <<>>,
     answer |-> "", sources |-> <<>>, no_results |-> FALSE,
     block |-> FALSE, suggestions |-> <<>>, total_available |-> 0,
     has_multiple_suggestions |-> FALSE, total_found |-> 0]

Repeat(e, n) == [i \in 1..n |-> e]

(***************************************************************************)
(* search_vector (src/app.py).                                             *)
(***************************************************************************)
\* One pass of the loop over the fetched VectorJson rows: the candidate the
\* row yields as a one-element sequence, or <<>> when the row is skipped.
SearchVectorScanRow(row, q, thr) ==
    IF row.vj.k # "vec" THEN <<>>      \* json.loads or len(...) raised: continue
    ELSE IF row.vj.v = <<>> THEN <<>>                  \* not stored_vector
    ELSE IF Len(row.vj.v) # Len(q) THEN <<>>           \* dimension mismatch
    ELSE LET sim == cosine_similarity(q, row.vj.v)
         IN IF Passes(sim, thr) THEN <<[id |-> row.id, sim |-> sim]>> ELSE <<>>

\* Whether the loop calls cosine_similarity for the row.
SearchVectorScores(row, q) ==
    row.vj.k = "vec" /\ row.vj.v # <<>> /\ Len(row.vj.v) = Len(q)

RECURSIVE SearchVectorScan(_, _, _)
SearchVectorScan(rows, q, thr) ==
    IF rows = <<>> THEN <<>>
    ELSE SearchVectorScanRow(Head(rows), q, thr) \o SearchVectorScan(Tail(rows), q, thr)

CountScored(rows, q) ==
    Cardinality({i \in 1..Len(rows) : SearchVectorScores(rows[i], q)})

\* dimension_mismatches after the loop.
DimensionMismatches(rows, q) ==
    Cardinality({i \in 1..Len(rows) :
        rows[i].vj.k = "vec" /\ rows[i].vj.v # <<>> /\ Len(rows[i].vj.v) # Len(q)})

\* stored_vector after the loop: what json.loads returned for the last row it
\* accepted (NullV: the name was never bound to a non-empty value).
LastStoredVector(rows) ==
    LET ok == {i \in 1..Len(rows) : rows[i].vj.k \in {"vec", "scalar"}}
    IN IF ok = {} THEN NullV
       ELSE rows[CHOOSE i \in ok : \A j \in ok : j <= i].vj

\* The warning after the loop evaluates len(stored_vector) outside the per-row
\* try: it raises TypeError when stored_vector is a number.
MismatchWarningRaises(rows, q) ==
    DimensionMismatches(rows, q) > 0 /\ LastStoredVector(rows).k = "scalar"

\* The response of search_vector and the effects it had, in order.  ord is the
\* row order the server returns for the VECTOR_DISTANCE query.
\* Closing without the close.
ClosingSkipped(ev) == ev

\* finally: conn.close() -- the handler's work ev inside try, then the close.
Closing(ev) == ev \o <<"close">>

SearchVector(d, r, ord) ==
    LET sch == d.sch
        q == QueryVector
        supports_vector == sch.major >= VectorMajorVersion
        is_vector_type == sch.embType = "vector"
        can_use_vector_distance == supports_vector /\ is_vector_type
        has_embedding_column == sch.embType # "none" /\ can_use_vector_distance
        total_records == Len(d.rows)
        withVJ == SelectRows(d.rows, "vj")
        fetched == Take(withVJ, r.topK * OversampleSearchVector)
        all_results == SortDesc(SearchVectorScan(fetched, q, r.thr))
        jsonResults == Take(all_results, r.topK)
        nativeResults == FilterThreshold(Take(ord, r.topK), r.thr)
    IN
    IF r.query = "no_body" THEN
        \* request.get_json() raises BadRequest, caught by "except Exception"
        [resp |-> [NoResp EXCEPT !.http = 500, !.raised = "BadRequest"],
         events |-> <<>>]
    ELSE IF r.query = "missing" THEN
        [resp |-> [NoResp EXCEPT !.http = 400, !.error = "query_required"],
         events |-> <<>>]
    ELSE IF r.query \in {"empty", "not_string"} THEN
        [resp |-> [NoResp EXCEPT !.http = 400, !.error = "query_not_a_string"],
         events |-> <<>>]
    ELSE IF r.fault = "connect" THEN
        \* get_sql_connection() or conn.cursor() raises: 500, nothing to close
        [resp |-> [NoResp EXCEPT !.http = 500, !.error = "sql_connection"],
         events |-> <<"embed">>]
    ELSE IF r.fault = "probe" THEN
        \* a probing statement raises inside try ... finally: conn.close()
        [resp |-> [NoResp EXCEPT !.http = 500, !.raised = "SqlError"],
         events |-> Closing(<<"embed", "connect">>)]
    ELSE IF ~TableExists(sch) THEN
        [resp |-> [NoResp EXCEPT !.http = 400, !.error = "table_not_found"],
         events |-> Closing(<<"embed", "connect">>)]
    ELSE IF ~has_embedding_column \/ ~can_use_vector_distance THEN
        IF ~sch.hasVJ THEN
            [resp |-> [NoResp EXCEPT !.http = 400, !.error = "no_vector_column",
                                     !.totalRecords = total_records],
             events |-> Closing(<<"embed", "connect">>)]
        ELSE IF NoPopulatedRows(withVJ) THEN
            [resp |-> [NoResp EXCEPT !.http = 200, !.warning = TRUE, !.totalResults = 0],
             events |-> Closing(<<"embed", "connect">>)]
        ELSE IF MismatchWarningRaises(fetched, q) THEN
            [resp |-> [NoResp EXCEPT !.http = 500, !.raised = "TypeError"],
             events |-> Closing(<<"embed", "connect", "fetch_json">>
                                \o Repeat("score", CountScored(fetched, q)))]
        ELSE
            [resp |-> [NoResp EXCEPT !.http = 200, !.results = jsonResults,
                                     !.totalResults = Len(jsonResults)],
             events |-> Closing(<<"embed", "connect", "fetch_json">>
                                \o Repeat("score", CountScored(fetched, q)))]
    ELSE
        IF NoPopulatedRows(SelectRows(d.rows, "emb")) THEN
            [resp |-> [NoResp EXCEPT !.http = 200, !.warning = TRUE, !.totalResults = 0],
             events |-> Closing(<<"embed", "connect">>)]
        ELSE IF r.fault = "vector_distance" THEN
            \* the three VECTOR_DISTANCE attempts raise: raise e3, re-raised
            [resp |-> [NoResp EXCEPT !.http = 500, !.raised = "SqlError"],
             events |-> Closing(<<"embed", "connect">>)]
        ELSE
            [resp |-> [NoResp EXCEPT !.http = 200, !.results = nativeResults,
                                     !.totalResults = Len(nativeResults)],
             events |-> Closing(<<"embed", "connect", "fetch_native">>)]

(***************************************************************************)
(* RAGServiceSQL (src/rag_service_sql.py).  The similarity a response      *)
(* shows is round(similarity, 4) of the similarity the filter and the sort *)
(* used; the model's suggestions and sources carry the latter.             *)
(***************************************************************************)
\* One pass of the VectorJson loop of chat: every decodable, non-empty vector
\* is scored (no dimension check: _cosine_similarity answers 0.0).
ServiceScanRow(row, q) ==
    IF row.vj.k # "vec" THEN <<>>      \* json.loads or len(vec2) raised: continue
    ELSE IF row.vj.v = <<>> THEN <<>>                  \* if vector:
    ELSE <<[id |-> row.id, sim |-> RAGServiceSQL_cosine_similarity(q, row.vj.v)]>>

RECURSIVE ServiceScan(_, _)
ServiceScan(rows, q) ==
    IF rows = <<>> THEN <<>>
    ELSE ServiceScanRow(Head(rows), q) \o ServiceScan(Tail(rows), q)

\* has_vector_column: a column named Embedding exists, whatever its type.
HasVectorColumn(sch) == sch.exists /\ sch.embType # "none"

\* The server accepts VECTOR_DISTANCE(Embedding, CAST(? AS VECTOR(n)), COSINE).
VectorDistanceRuns(sch) ==
    sch.embType = "vector" /\ sch.major >= VectorMajorVersion
    /\ Len(QueryVector) = EMBEDDING_DIMENSION

\* WithSuggestions with the minimum compared by > in place of >=.
WithSuggestionsAboveMin(resp, a, filtered_results) ==
    IF a.retSug /\ Len(filtered_results) > MinMatchesChat /\ a.sel = {}
    THEN [resp EXCEPT !.block = TRUE,
                      !.suggestions = Take(filtered_results, MaxSuggestionsChat),
                      !.total_available = Len(filtered_results)]
    ELSE resp

\* The suggestions block of chat, as fields of the response.
WithSuggestions(resp, a, filtered_results) ==
    IF a.retSug /\ Len(filtered_results) >= MinMatchesChat /\ a.sel = {}
    THEN [resp EXCEPT !.block = TRUE,
                      !.suggestions = Take(filtered_results, MaxSuggestionsChat),
                      !.total_available = Len(filtered_results)]
    ELSE resp

\* Answered without the "if not results" return.
AnsweredByLlmAlways(resp, results) ==
    [resp EXCEPT !.answer = "llm", !.sources = results]

\* "Buoc 3": the fixed answer when nothing was retrieved, else the LLM answer.
Answered(resp, results) ==
    IF results = <<>>
    THEN [resp EXCEPT !.answer = "no_info", !.no_results = TRUE]
    ELSE [resp EXCEPT !.answer = "llm", !.sources = results]

\* chain.invoke(...): the LLM is called exactly when the answer is its own.
LlmCall(resp) == IF resp.answer = "llm" THEN <<"llm">> ELSE <<>>

\* results on the VectorJson path: the selected ids, else the top_k.
chatJsonResults(filtered_results, a) ==
    IF a.sel # {} THEN SelectSeq2(filtered_results, a.sel)
    ELSE Take(filtered_results, a.topK)

\* results on the VECTOR_DISTANCE path: filtered_results[:top_k].
chatNativeResults(filtered_results, a) == Take(filtered_results, a.topK)

\* chain.invoke raises for this request.
LlmFails(a, answered) == a.fault = "llm" /\ answered.answer = "llm"

\* An exception leaves the method after the effects ev.
Raises(name, ev) == [resp |-> [NoResp EXCEPT !.raised = name], events |-> ev]

\* RAGServiceSQL.chat with the arguments a; ord is the row order the server
\* returns for the VECTOR_DISTANCE query.
chat(d, a, ord) ==
    LET sch == d.sch
        q == QueryVector
    IN
    IF a.multi THEN
        \* self._chat_multiple_tables: RAGServiceSQL has no such attribute
        [resp |-> [NoResp EXCEPT !.raised = "AttributeError"], events |-> <<>>]
    ELSE IF a.fault = "embed" THEN
        \* if not query_vector: return {"error": ..., "answer": None, ...}
        [resp |-> [NoResp EXCEPT !.error = "embedding_failed", !.answer = "None"],
         events |-> <<"embed">>]
    ELSE IF ~TableExists(sch) THEN
        [resp |-> [NoResp EXCEPT !.error = "table_not_found",
                                 !.answer = "table_not_found", !.no_results = TRUE],
         events |-> <<"embed", "connect", "commit">>]
    ELSE IF HasVectorColumn(sch) THEN
        IF ~VectorDistanceRuns(sch) THEN
            Raises("SqlError", <<"embed", "connect", "rollback">>)
        ELSE
            LET all_fetched_results ==
                    IF a.sel # {} THEN ord ELSE Take(ord, a.topK * OversampleService)
                filtered_results == SortDesc(FilterThreshold(all_fetched_results, a.thr))
                results == chatNativeResults(filtered_results, a)
                answered == Answered(WithSuggestions(NoResp, a, filtered_results), results)
            IN IF LlmFails(a, answered)
               THEN Raises("LlmError",
                           <<"embed", "connect", "fetch_native", "commit", "llm">>)
               ELSE [resp |-> answered,
                     events |-> <<"embed", "connect", "fetch_native", "commit">>
                                \o LlmCall(answered)]
    ELSE
        IF ~sch.hasVJ THEN
            Raises("SqlError", <<"embed", "connect", "rollback">>)
        ELSE
            LET fetched == SelectRows(d.rows, "vj")
                all_fetched_results == ServiceScan(fetched, q)
                filtered_results == SortDesc(FilterThreshold(all_fetched_results, a.thr))
                results == chatJsonResults(filtered_results, a)
                answered == Answered(WithSuggestions(NoResp, a, filtered_results), results)
            IN IF LlmFails(a, answered)
               THEN Raises("LlmError",
                           <<"embed", "connect", "fetch_json">>
                           \o Repeat("score", Len(all_fetched_results))
                           \o <<"llm", "rollback">>)
               ELSE [resp |-> answered,
                     events |-> <<"embed", "connect", "fetch_json">>
                                \o Repeat("score", Len(all_fetched_results))
                                \o LlmCall(answered)
                                \o <<"commit">>]

\* all_results of search_suggestions on the VECTOR_DISTANCE path.
suggestionsNativeResults(ord, a) ==
    FilterThreshold(Take(ord, a.topK * OversampleService), a.thr)

\* HasMultipleSuggestions with > in place of >=.
HasMultipleSuggestionsAbove(suggestions, min_suggestions) ==
    Len(suggestions) > min_suggestions

\* has_multiple_suggestions = len(suggestions) >= min_suggestions
HasMultipleSuggestions(suggestions, min_suggestions) ==
    Len(suggestions) >= min_suggestions

\* RAGServiceSQL.search_suggestions with the arguments a.
search_suggestions(d, a, ord) ==
    LET sch == d.sch
        q == QueryVector
        shaped(all_results) ==
            [NoResp EXCEPT !.suggestions = all_results,
                           !.total_found = Len(all_results),
                           !.has_multiple_suggestions =
                               HasMultipleSuggestions(all_results, a.minSug)]
    IN
    IF a.fault = "embed" THEN
        \* if not query_vector: return {"error": ..., "suggestions": [], ...}
        [resp |-> [NoResp EXCEPT !.error = "embedding_failed"],
         events |-> <<"embed">>]
    ELSE IF HasVectorColumn(sch) THEN
        IF ~VectorDistanceRuns(sch) THEN
            Raises("SqlError", <<"embed", "connect", "rollback">>)
        ELSE
            [resp |-> shaped(suggestionsNativeResults(ord, a)),
             events |-> <<"embed", "connect", "fetch_native", "commit">>]
    ELSE
        IF ~sch.exists \/ ~sch.hasVJ THEN
            Raises("SqlError", <<"embed", "connect", "rollback">>)
        ELSE
            LET fetched == SelectRows(d.rows, "vj")
                scored == ServiceScan(fetched, q)
                all_results == Take(SortDesc(FilterThreshold(scored, a.thr)), a.topK)
            IN [resp |-> shaped(all_results),
                events |-> <<"embed", "connect", "fetch_json">>
                           \o Repeat("score", Len(scored)) \o <<"commit">>]

(***************************************************************************)
(* The endpoints (src/rag_main_sql.py).                                    *)
(***************************************************************************)
\* request.similarity_threshold or 0.5
EndpointThreshold(t) == IF t.n = 0 THEN ThrHalf ELSE t

\* The arguments the service method is called with.
ServiceArgs(r) ==
    IF r.via = "http" THEN [r EXCEPT !.thr = EndpointThreshold(r.thr)] ELSE r

\* ChatRequest / SuggestionsRequest: query has min_length = 1; the framework
\* answers 422 and the endpoint function is not called.
RequestRejected(r) == r.via = "http" /\ r.query # "text"

Rejected == [resp |-> [NoResp EXCEPT !.http = 422, !.error = "validation"],
             events |-> <<>>]

\* POST /chat around the result of RAGServiceSQL.chat.
chatEndpoint(out) ==
    LET res == out.resp IN
    IF res.raised # "" THEN
        [out EXCEPT !.resp = [NoResp EXCEPT !.http = 500, !.raised = res.raised]]
    ELSE IF res.error # "" /\ res.answer = "None" THEN
        \* ChatResponse(answer=None, ...): ValidationError, a ValueError
        [out EXCEPT !.resp = [NoResp EXCEPT !.http = 400, !.raised = "ValidationError"]]
    ELSE IF res.error # "" THEN
        [out EXCEPT !.resp = [NoResp EXCEPT !.http = 200, !.error = res.error,
                                            !.answer = res.answer,
                                            !.sources = res.sources]]
    ELSE [out EXCEPT !.resp.http = 200]

\* POST /chat/suggestions around the result of search_suggestions.
get_suggestions(out) ==
    LET res == out.resp IN
    IF res.raised # "" THEN
        [out EXCEPT !.resp = [NoResp EXCEPT !.http = 500, !.raised = res.raised]]
    ELSE IF res.error # "" THEN
        [out EXCEPT !.resp = [NoResp EXCEPT !.http = 200, !.error = res.error]]
    ELSE [out EXCEPT !.resp.http = 200]

(***************************************************************************)
(* The state machine: one request at a time against a fixed store.         *)
(***************************************************************************)
VARIABLES
    db,      \* the searched table: its schema and rows
    pc,      \* "idle": no request in progress; "done": a response is out
    req,     \* the request being answered
    resp,    \* its response
    events   \* what the handler did, in order: "embed", "connect",
             \* "fetch_json", "fetch_native", "score", "llm", "commit",
             \* "rollback", "close"

\* A call of one of the two scorers on its own: its arguments and, once it
\* has returned, its value.
VARIABLE call

\* A run of ExcelToSQLVectorImporter.import_excel_file on its own: the sheet it
\* reads, its arguments and, once it has returned, the rows it inserted.
VARIABLE imp

vars == <<db, pc, req, resp, events, call, imp>>

NoCall == [fn |-> "none", vec1 |-> <<>>, vec2 |-> <<>>, returned |-> FALSE, ret |-> ZeroSim]

NoImport ==
    [sheet |-> <<>>, has_vector_column |-> FALSE, batch_size |-> 1,
     returned |-> FALSE, table |-> <<>>]

Vias == {"http", "direct"}

\* table_names of a request with search_multiple_tables = true
TableNames == <<"rag_documents", "TSMay">>

\* What a request may carry in place of a query text.
InvalidQueries == {"empty", "not_string", "missing", "no_body"}

\* What can raise in search_vector once the query is embedded: opening the
\* connection, a probing statement, the VECTOR_DISTANCE statements.
SearchVectorFaults == {"connect", "probe", "vector_distance"}

SearchVectorRequests ==
    { [NoReq EXCEPT !.op = "search_vector", !.via = "http", !.topK = k, !.thr = t] :
        k \in TopKs, t \in Thresholds }
    \cup
    { [NoReq EXCEPT !.op = "search_vector", !.via = "http", !.topK = 1,
                    !.thr = ThrHalf, !.query = qk] : qk \in InvalidQueries }
    \cup
    { [NoReq EXCEPT !.op = "search_vector", !.via = "http", !.topK = 1,
                    !.thr = ThrHalf, !.fault = f] : f \in SearchVectorFaults }

SuggestionsRequests ==
    { [NoReq EXCEPT !.op = "suggestions", !.via = v, !.topK = k, !.thr = t,
                    !.minSug = 2] :
        v \in Vias, k \in TopKs, t \in Thresholds }
    \cup
    { [NoReq EXCEPT !.op = "suggestions", !.via = v, !.topK = 1, !.thr = ThrHalf,
                    !.minSug = 2, !.fault = "embed"] : v \in Vias }

\* Single-table requests, and requests with search_multiple_tables = true and
\* table_names = TableNames (no table_name).
ChatRequests ==
    { [NoReq EXCEPT !.op = "chat", !.via = v, !.topK = k, !.thr = t,
                    !.retSug = rs, !.sel = ids] :
        v \in Vias, k \in TopKs, t \in Thresholds, rs \in BOOLEAN,
        ids \in SelectedIds }
    \cup
    { [NoReq EXCEPT !.op = "chat", !.via = v, !.topK = k, !.thr = t,
                    !.retSug = TRUE, !.multi = TRUE] :
        v \in Vias, k \in TopKs, t \in Thresholds }
    \cup
    { [NoReq EXCEPT !.op = "chat", !.via = v, !.topK = 1, !.thr = ThrHalf,
                    !.retSug = TRUE, !.fault = f] :
        v \in Vias, f \in {"embed", "llm"} }
    \cup
    { [NoReq EXCEPT !.op = "chat", !.via = "http", !.topK = 1, !.thr = ThrHalf,
                    !.retSug = TRUE, !.query = "empty"] }

Init ==
    /\ db \in Databases
    /\ pc = "idle"
    /\ req = NoReq
    /\ resp = NoResp
    /\ events = <<>>
    /\ call = NoCall
    /\ imp = NoImport

Respond(r, out) ==
    /\ req' = r
    /\ resp' = out.resp
    /\ events' = out.events
    /\ pc' = "done"
    /\ UNCHANGED <<db, call, imp>>

AllRowIds == 1..Len(db.rows)

\* The requests among rs answered by POST /api/search/vector.
SearchVectorStep(rs) ==
    \E ord \in VectorDistanceOrders(db.rows, QueryVector, AllRowIds) :
      \E r \in rs :
         Respond(r, SearchVector(db, r, ord))

\* POST /api/search/vector
DoSearchVector ==
    /\ pc = "idle"
    /\ SearchVectorStep(SearchVectorRequests)

\* The requests among rs answered by POST /chat/suggestions, or by
\* search_suggestions called directly.
SuggestionsStep(rs) ==
    \E ord \in VectorDistanceOrders(db.rows, QueryVector, AllRowIds) :
      \E r \in rs :
         LET out == search_suggestions(db, ServiceArgs(r), ord)
         IN Respond(r, IF RequestRejected(r) THEN Rejected
                       ELSE IF r.via = "http" THEN get_suggestions(out)
                       ELSE out)

\* POST /chat/suggestions, or search_suggestions called directly
DoSuggestions ==
    /\ pc = "idle"
    /\ SuggestionsStep(SuggestionsRequests)

\* The requests among rs answered by POST /chat, or by chat called directly;
\* the VECTOR_DISTANCE query of a request runs over its selected ids, or over
\* every row when it selects none.
ChatStep(rs) ==
    \E ids \in {r.sel : r \in rs} :
      \E ord \in VectorDistanceOrders(db.rows, QueryVector,
                                      IF ids # {} THEN ids ELSE AllRowIds) :
        \E r \in {x \in rs : x.sel = ids} :
          LET out == chat(db, ServiceArgs(r), ord)
          IN Respond(r, IF RequestRejected(r) THEN Rejected
                        ELSE IF r.via = "http" THEN chatEndpoint(out)
                        ELSE out)

\* POST /chat, or chat called directly
DoChat ==
    /\ pc = "idle"
    /\ ChatStep(ChatRequests)

\* The caller picks some of the suggestions it was just offered (by
\* search_suggestions or by the suggestions block of chat) and asks chat again
\* with selected_suggestion_ids, the same query and the same threshold.
DoFollowUpChat ==
    /\ pc = "done"
    /\ req.op \in {"suggestions", "chat"}
    /\ resp.suggestions # <<>>
    /\ ChatStep({ r \in ChatRequests :
                    /\ r.via = req.via /\ r.thr = req.thr
                    /\ r.query = "text" /\ r.fault = "none" /\ ~r.multi
                    /\ r.sel # {}
                    /\ r.sel \subseteq {resp.suggestions[i].id :
                                           i \in DOMAIN resp.suggestions} })

\* The response has been delivered; the next request may come.
NextRequest ==
    /\ pc = "done"
    /\ pc' = "idle"
    /\ req' = NoReq
    /\ resp' = NoResp
    /\ events' = <<>>
    /\ UNCHANGED <<db, call, imp>>

Next == DoSearchVector \/ DoSuggestions \/ DoChat \/ DoFollowUpChat \/ NextRequest

Spec == Init /\ [][Next]_vars

(***************************************************************************)
(* Long tables.  A table without an Embedding column holding up to          *)
(* MaxLongRows chunks, each with a VectorJson of the query's dimension;     *)
(* the requests ask for few results (LongTopKs: 1, 2) or for as many as    *)
(* the endpoints admit (top_k le=20).                                      *)
(***************************************************************************)
LongSchema == [exists |-> TRUE, embType |-> "none", hasVJ |-> TRUE, major |-> 15]

LongRowTemplates ==
    { [emb |-> NullV, vj |-> Vec(VecA)],
      [emb |-> NullV, vj |-> Vec(VecC)] }

LongDatabases ==
    { [sch |-> LongSchema,
       rows |-> [i \in 1..Len(ts) |-> StoredRow(LongSchema, ts[i], i)]] :
        ts \in UNION {[1..n -> LongRowTemplates] : n \in 0..MaxLongRows} }

LongSearchVectorRequests ==
    { [NoReq EXCEPT !.op = "search_vector", !.via = "http", !.topK = k, !.thr = t] :
        k \in {1, 2}, t \in {ThrHalf, Thr1} }

LongSuggestionsRequests ==
    { [NoReq EXCEPT !.op = "suggestions", !.via = "direct", !.topK = k,
                    !.thr = ThrHalf, !.minSug = 2] : k \in {1, MaxTopK} }

LongChatRequests ==
    { [NoReq EXCEPT !.op = "chat", !.via = "direct", !.topK = k, !.thr = ThrHalf,
                    !.retSug = TRUE] : k \in {1, MaxTopK} }

InitLong ==
    /\ db \in LongDatabases
    /\ pc = "idle"
    /\ req = NoReq
    /\ resp = NoResp
    /\ events = <<>>
    /\ call = NoCall
    /\ imp = NoImport

DoSearchVectorLong ==
    /\ pc = "idle"
    /\ SearchVectorStep(LongSearchVectorRequests)

DoSuggestionsLong ==
    /\ pc = "idle"
    /\ SuggestionsStep(LongSuggestionsRequests)

DoChatLong ==
    /\ pc = "idle"
    /\ ChatStep(LongChatRequests)

NextLong == DoSearchVectorLong \/ DoSuggestionsLong \/ DoChatLong \/ NextRequest

SpecLong == InitLong /\ [][NextLong]_vars

(***************************************************************************)
(* The scorers on their own: every pair of vectors of up to MaxDim          *)
(* components, each component -1, 0 or 1.                                   *)
(***************************************************************************)
Components == {-1, 0, 1}

Vectors == UNION {[1..n -> Components] : n \in 0..MaxDim}

InitScorer ==
    /\ db = [sch |-> [exists |-> FALSE, embType |-> "none", hasVJ |-> FALSE, major |-> 17],
             rows |-> <<>>]
    /\ pc = "idle"
    /\ req = NoReq
    /\ resp = NoResp
    /\ events = <<>>
    /\ call \in { [NoCall EXCEPT !.fn = f, !.vec1 = a, !.vec2 = b] :
                     f \in {"cosine_similarity", "_cosine_similarity"},
                     a \in Vectors, b \in Vectors }
    /\ imp = NoImport

\* cosine_similarity(vec1, vec2) of app.py returns.
CallCosineSimilarity ==
    /\ call.fn = "cosine_similarity" /\ ~call.returned
    /\ call' = [call EXCEPT !.returned = TRUE,
                            !.ret = cosine_similarity(call.vec1, call.vec2)]
    /\ UNCHANGED <<db, pc, req, resp, events, imp>>

\* RAGServiceSQL._cosine_similarity(vec1, vec2) returns.
CallServiceCosineSimilarity ==
    /\ call.fn = "_cosine_similarity" /\ ~call.returned
    /\ call' = [call EXCEPT !.returned = TRUE,
                            !.ret = RAGServiceSQL_cosine_similarity(call.vec1, call.vec2)]
    /\ UNCHANGED <<db, pc, req, resp, events, imp>>

NextScorer == CallCosineSimilarity \/ CallServiceCosineSimilarity

SpecScorer == InitScorer /\ [][NextScorer]_vars

(***************************************************************************)
(* ExcelToSQLVectorImporter.import_excel_file (src/excel_to_sql_vector.py). *)
(* A sheet is a sequence of rows; pandas labels them 0, 1, 2, ... in sheet  *)
(* order and keeps the labels when rows are dropped.  A row is blank (every *)
(* cell empty) or carries data, with or without text in its text columns.   *)
(***************************************************************************)
Texts == {"", "a", "b"}

SheetRows ==
    {[blank |-> TRUE, text |-> ""]} \cup {[blank |-> FALSE, text |-> t] : t \in Texts}

Sheets == UNION {[1..n -> SheetRows] : n \in 0..MaxSheetRows}

\* What a NULL column holds.
NullText == "NULL"

\* The code's [] for "no embedding"; stored as NULL.
NoEmbedding == <<>>

\* The vector the embedding API returns for a text.
EmbeddingOf(t) == <<"embedding", t>>

RECURSIVE KeptLabels(_, _)
\* df.index after df.dropna(how="all") and the minimum-columns filter: the
\* labels of the rows from the i-th on that are kept.
KeptLabels(sheet, i) ==
    IF i > Len(sheet) THEN <<>>
    ELSE (IF sheet[i].blank THEN <<>> ELSE <<i - 1>>) \o KeptLabels(sheet, i + 1)

\* _create_combined_text(row, text_columns)
create_combined_text(row) == row.text

\* combined_texts: one entry per kept row, appended in iteration order.
combined_texts(sheet) ==
    LET index == KeptLabels(sheet, 1)
    IN [p \in 1..Len(index) |-> create_combined_text(sheet[index[p] + 1])]

\* _generate_embeddings(texts)
generate_embeddings(texts) == [i \in 1..Len(texts) |-> EmbeddingOf(texts[i])]

RECURSIVE batch_embeddings_list(_, _, _)
\* The loop that maps the embeddings of the non-empty texts of a batch back
\* to the places of the batch.
batch_embeddings_list(batch_texts, batch_embeddings, embedding_idx) ==
    IF batch_texts = <<>> THEN <<>>
    ELSE IF Head(batch_texts) # "" /\ embedding_idx < Len(batch_embeddings)
    THEN <<batch_embeddings[embedding_idx + 1]>>
         \o batch_embeddings_list(Tail(batch_texts), batch_embeddings, embedding_idx + 1)
    ELSE <<NoEmbedding>>
         \o batch_embeddings_list(Tail(batch_texts), batch_embeddings, embedding_idx)

NonEmptyText(t) == t # ""

\* The embeddings of one batch.
BatchEmbeddings(batch_texts) ==
    LET batch_texts_filtered == SelectSeq(batch_texts, NonEmptyText)
    IN IF batch_texts_filtered # <<>>
       THEN batch_embeddings_list(batch_texts, generate_embeddings(batch_texts_filtered), 0)
       ELSE [j \in 1..Len(batch_texts) |-> NoEmbedding]

RECURSIVE embeddings(_, _, _)
\* for i in range(0, len(combined_texts), batch_size): embeddings.extend(...)
embeddings(texts, batch_size, i) ==
    IF i >= Len(texts) THEN <<>>
    ELSE BatchEmbeddings(SubSeq(texts, i + 1, Min(i + batch_size, Len(texts))))
         \o embeddings(texts, batch_size, i + batch_size)

\* One pass of the insert loop, for the row labelled idx: the row it inserts,
\* or nothing when cursor.execute raises (the statement of a table with an
\* Embedding column has one parameter marker more than values when there is
\* no embedding) and the loop continues.
InsertRow(has_vector_column, texts, embs, idx) ==
    LET combined_text == IF idx < Len(texts) THEN texts[idx + 1] ELSE ""
        embedding == IF idx < Len(embs) THEN embs[idx + 1] ELSE NoEmbedding
    IN IF has_vector_column /\ embedding = NoEmbedding THEN <<>>
       ELSE <<[RowIndex     |-> idx,
               CombinedText |-> IF combined_text # "" THEN combined_text ELSE NullText,
               VectorJson   |-> embedding,
               Embedding    |-> IF has_vector_column THEN embedding ELSE NoEmbedding]>>

RECURSIVE InsertRows(_, _, _, _)
\* for idx, row in df.iterrows(): ...
InsertRows(has_vector_column, texts, embs, index) ==
    IF index = <<>> THEN <<>>
    ELSE InsertRow(has_vector_column, texts, embs, Head(index))
         \o InsertRows(has_vector_column, texts, embs, Tail(index))

\* The rows import_excel_file inserts for a sheet.
import_excel_file(sheet, has_vector_column, batch_size) ==
    LET texts == combined_texts(sheet)
    IN InsertRows(has_vector_column, texts, embeddings(texts, batch_size, 0),
                  KeptLabels(sheet, 1))

BatchSizes == {1, 2}

InitImport ==
    /\ db = [sch |-> [exists |-> FALSE, embType |-> "none", hasVJ |-> FALSE, major |-> 17],
             rows |-> <<>>]
    /\ pc = "idle"
    /\ req = NoReq
    /\ resp = NoResp
    /\ events = <<>>
    /\ call = NoCall
    /\ imp \in { [NoImport EXCEPT !.sheet = sh, !.has_vector_column = hvc,
                                   !.batch_size = bs] :
                    sh \in Sheets, hvc \in BOOLEAN, bs \in BatchSizes }

\* import_excel_file(excel_file, table_name, batch_size=...) returns.
ImportExcelFile ==
    /\ ~imp.returned
    /\ imp' = [imp EXCEPT !.returned = TRUE,
                          !.table = import_excel_file(imp.sheet, imp.has_vector_column,
                                                      imp.batch_size)]
    /\ UNCHANGED <<db, pc, req, resp, events, call>>

NextImport == ImportExcelFile

SpecImport == InitImport /\ [][NextImport]_vars

(***************************************************************************)
(* Vocabulary of the properties.  These definitions restate what a claim   *)
(* speaks of directly from the store and the request.                      *)
(***************************************************************************)
Done == pc = "done"

\* The response is out for a request that carries a query text, whose query
\* was embedded and whose connection was opened and probed.
Admitted ==
    Done /\ req.query = "text" /\ req.fault \notin {"embed", "connect", "probe"}

\* The handler ended without an exception.
Completed == Done /\ resp.raised = ""

Range(s) == {s[i] : i \in DOMAIN s}

Ids(s) == {s[i].id : i \in DOMAIN s}

Occurrences(e) == Cardinality({i \in DOMAIN events : events[i] = e})

\* sim >= n/d, for a threshold n/d >= 0
SimAtLeast(sim, t) == sim.ss * t.d * t.d >= t.n * t.n * sim.d

\* s1 >= s2, for two similarities
SimAtLeast2(s1, s2) == s1.ss * s2.d >= s2.ss * s1.d

\* The threshold the handler works with.
ThresholdInForce ==
    IF req.op = "search_vector" THEN req.thr ELSE ServiceArgs(req).thr

\* The list the operation is asked for.
Output ==
    IF req.op = "search_vector" THEN resp.results
    ELSE IF req.op = "suggestions" THEN resp.suggestions
    ELSE resp.sources

\* The request ran its candidate query.
Retrieved == Occurrences("fetch_json") + Occurrences("fetch_native") > 0

OnNativePath == Occurrences("fetch_native") > 0
OnJsonPath == Occurrences("fetch_json") > 0

\* The chunks a path scores, with their similarity to the query.
NativeCandidates ==
    { [id |-> db.rows[i].id, sim |-> cosine_similarity(db.rows[i].emb.v, QueryVector)] :
        i \in {j \in DOMAIN db.rows : db.rows[j].emb.k = "vec"} }

JsonCandidates ==
    { [id |-> db.rows[i].id, sim |-> cosine_similarity(QueryVector, db.rows[i].vj.v)] :
        i \in {j \in DOMAIN db.rows :
                 /\ db.rows[j].vj.k = "vec"
                 /\ db.rows[j].vj.v # <<>>
                 /\ req.op = "search_vector" => Len(db.rows[j].vj.v) = Len(QueryVector)} }

Candidates == IF OnNativePath THEN NativeCandidates ELSE JsonCandidates

PassingCandidates == {c \in Candidates : SimAtLeast(c.sim, ThresholdInForce)}

\* C1: the threshold filter is inclusive.  Nothing a search returns (results,
\* suggestions, sources) has a similarity below the threshold in force, and
\* whenever a search that ended without an exception returns fewer than topK
\* entries (nothing was cut off), every candidate whose similarity is at least
\* the threshold (and, with selected ids, is selected) is among them: a
\* candidate equal to the threshold is kept.
C1_ThresholdInclusive ==
    Done =>
        /\ \A c \in Range(resp.results) \cup Range(resp.suggestions) \cup Range(resp.sources) :
              SimAtLeast(c.sim, ThresholdInForce)
        /\ (Completed /\ Retrieved /\ Len(Output) < req.topK) =>
              \A c \in PassingCandidates :
                  (req.sel = {} \/ c.id \in req.sel) => c \in Range(Output)

\* A chat whose source sits exactly on the threshold while another chunk of
\* the table was filtered out.
C1_Witness ==
    /\ Done /\ req.op = "chat"
    /\ \E c \in Range(resp.sources) :
          SimAtLeast(c.sim, ThresholdInForce) /\ ~SimGT(c.sim, ThrSim(ThresholdInForce))
    /\ \E c \in Candidates : ~SimAtLeast(c.sim, ThresholdInForce)

\* C2: for every query the results of search_vector, the suggestions of
\* search_suggestions and the sources of chat are sorted non-increasing by
\* similarity and hold at most the caller's topK (topN) entries, on either
\* path, with or without selected ids.
C2_SortedAndAtMostTopK ==
    Done => (IsSortedDesc(Output) /\ Len(Output) <= req.topK)

\* The number of candidates the request retrieved that pass the threshold in
\* force: the VECTOR_DISTANCE path retrieves the OversampleService * top_k
\* nearest rows, the VectorJson path every decodable row.
RetrievedPassing ==
    IF OnNativePath
    THEN Min(Cardinality(PassingCandidates), OversampleService * req.topK)
    ELSE IF OnJsonPath THEN Cardinality(PassingCandidates)
    ELSE 0

\* C3: chat returns a suggestions block only if no ids were selected,
\* return_suggestions is true and at least MinMatchesChat (3) of the retrieved
\* candidates pass the threshold in force, and a chat that ends without an
\* exception returns one whenever the three hold.
C3_SuggestionStateIff ==
    (Done /\ req.op = "chat") =>
        LET suggesting == req.sel = {} /\ req.retSug /\ RetrievedPassing >= MinMatchesChat
        IN /\ resp.block => suggesting
           /\ (Completed /\ suggesting) => resp.block

C3_Witness ==
    /\ Done /\ req.op = "chat" /\ resp.block
    /\ Len(resp.suggestions) >= MinMatchesChat

\* C4: a chat that returns a suggestions block (has_suggestions = true) does
\* not invoke the LLM and returns no synthesized answer.
C4_NoSynthesisWhenSuggesting ==
    (Done /\ req.op = "chat" /\ resp.block) =>
        (Occurrences("llm") = 0 /\ resp.answer # "llm")

\* The candidates left for the answer after the threshold and the selection.
LeftForAnswer ==
    {c \in PassingCandidates : req.sel = {} \/ c.id \in req.sel}

\* C5: when filtering (and the selection, if any) leaves no candidate, chat
\* returns the fixed "no information found" answer with no sources and
\* no_results = true, and does not invoke the LLM.
C5_NoCandidatesNoSynthesis ==
    (Done /\ req.op = "chat" /\ Retrieved /\ LeftForAnswer = {}) =>
        /\ resp.answer = "no_info"
        /\ resp.sources = <<>>
        /\ resp.no_results
        /\ Occurrences("llm") = 0

\* Ids were selected and some chunk passes the threshold, but no selected id
\* is among the passing ones.
C5_Witness ==
    /\ Done /\ req.op = "chat" /\ Retrieved
    /\ req.sel # {} /\ LeftForAnswer = {}
    /\ \E c \in JsonCandidates : SimAtLeast(c.sim, ThresholdInForce)
    /\ resp.no_results

\* C6: with a non-empty selected_suggestion_ids the sources of chat are exactly
\* the selected ids among the threshold-passing candidates; with none selected
\* they are the topK best of the passing candidates.
C6_SourcesAreSelectedPassing ==
    (Done /\ req.op = "chat" /\ Retrieved) =>
        /\ req.sel # {} => Ids(resp.sources) = {c.id : c \in LeftForAnswer}
        /\ req.sel = {} =>
              /\ Len(resp.sources) = Min(req.topK, Cardinality(PassingCandidates))
              /\ \A c \in PassingCandidates :
                    c \in Range(resp.sources)
                    \/ \A u \in Range(resp.sources) : SimAtLeast2(u.sim, c.sim)

\* C7: a chat with search_multiple_tables = true and a list of table_names
\* retrieves from every listed table and returns one list ranked by similarity
\* across the tables.
C7_FederatedGlobalRanking ==
    (Done /\ req.op = "chat" /\ req.multi) =>
        /\ resp.raised = ""
        /\ Occurrences("fetch_json") + Occurrences("fetch_native") = Len(TableNames)
        /\ IsSortedDesc(resp.sources)

\* The vector column search_vector works with, and its populated rows.
SearchVectorNative == db.sch.embType = "vector" /\ db.sch.major >= VectorMajorVersion
SearchVectorUsable == db.sch.exists /\ (SearchVectorNative \/ db.sch.hasVJ)
PopulatedRows ==
    {i \in DOMAIN db.rows :
        IF SearchVectorNative THEN db.rows[i].emb.k # "null" ELSE db.rows[i].vj.k # "null"}

\* C8: on a table that exists and has a usable vector column but no row with a
\* populated vector, search_vector (given a query text) answers 200 with totalResults = 0, no
\* results and a warning, on either path, and raises nothing.
C8_EmptyTableWarning ==
    (Admitted /\ req.op = "search_vector" /\ SearchVectorUsable /\ PopulatedRows = {}) =>
        /\ resp.http = 200
        /\ resp.raised = "" /\ resp.error = ""
        /\ resp.totalResults = 0
        /\ resp.results = <<>>
        /\ resp.warning

\* The VECTOR_DISTANCE path on a table that has rows, none with an Embedding.
C8_Witness ==
    /\ Admitted /\ req.op = "search_vector"
    /\ SearchVectorNative /\ PopulatedRows = {} /\ Len(db.rows) > 0
    /\ resp.warning /\ resp.http = 200

\* C9: on a table that does not exist, search_vector and chat (given a query
\* text that was embedded) end with a "not found" result naming the table: no candidate row is fetched, no similarity
\* is scored, the LLM is not invoked.
C9_MissingTableNotFound ==
    (Admitted /\ req.op \in {"search_vector", "chat"} /\ ~req.multi /\ ~db.sch.exists) =>
        /\ resp.error = "table_not_found"
        /\ resp.raised = ""
        /\ req.op = "search_vector" => resp.http = 400
        /\ (req.op = "chat" /\ req.via = "http") => resp.http = 200
        /\ ~Retrieved
        /\ Occurrences("score") = 0
        /\ Occurrences("llm") = 0
        /\ resp.results = <<>> /\ resp.sources = <<>>

C9_Witness ==
    /\ Admitted /\ req.op = "chat" /\ req.via = "http" /\ ~db.sch.exists
    /\ resp.error = "table_not_found" /\ resp.http = 200

\* C10: on a table that exists but has neither an Embedding nor a VectorJson
\* column, search_vector, chat and search_suggestions (given a query text that
\* was embedded) end with an explicit
\* "search impossible" result carrying the table's row count, never with an
\* exception.
C10_NoVectorColumnExplicit ==
    (Admitted /\ ~req.multi /\ db.sch.exists /\ db.sch.embType = "none" /\ ~db.sch.hasVJ) =>
        /\ resp.raised = ""
        /\ resp.error = "no_vector_column"
        /\ resp.totalRecords = Len(db.rows)

\* C11: in search_vector, chat and search_suggestions the VECTOR_DISTANCE path
\* is taken if and only if the table has an Embedding column of type VECTOR
\* and the server supports VECTOR_DISTANCE; in every other case the VectorJson
\* path is taken (it reads the rows whenever a VectorJson is stored).
C11_PathSelection ==
    (Admitted /\ ~req.multi /\ db.sch.exists) =>
        /\ SearchVectorNative =>
              /\ ~OnJsonPath
              /\ (\E i \in DOMAIN db.rows : db.rows[i].emb.k # "null") => OnNativePath
        /\ ~SearchVectorNative =>
              /\ ~OnNativePath
              /\ (\E i \in DOMAIN db.rows : db.rows[i].vj.k # "null") => OnJsonPath

\* The stored rows whose VectorJson decodes to a vector of another length than
\* the query vector's.
MismatchedRows ==
    {i \in DOMAIN db.rows :
        db.rows[i].vj.k = "vec" /\ Len(db.rows[i].vj.v) # Len(QueryVector)}

\* C12: on the VectorJson path a row whose decoded vector differs in length
\* from the query vector is in no results, suggestions or sources, whatever
\* the threshold, and the request does not end with an exception because of it.
C12_DimensionMismatchDiscarded ==
    (Admitted /\ OnJsonPath) =>
        /\ \A c \in Range(resp.results) \cup Range(resp.suggestions) \cup Range(resp.sources) :
              c.id \notin MismatchedRows
        /\ (req.fault = "none" /\ MismatchedRows # {}) => resp.raised = ""

\* The stored rows whose VectorJson cannot be decoded or is not an array, and
\* those whose VectorJson is a non-empty vector of the query vector's length.
MalformedRows == {i \in DOMAIN db.rows : db.rows[i].vj.k \in {"bad", "scalar"}}

WellFormedRows ==
    {i \in DOMAIN db.rows :
        db.rows[i].vj.k = "vec" /\ Len(db.rows[i].vj.v) = Len(QueryVector)}

\* C13: on the VectorJson path a row whose VectorJson is malformed is skipped
\* and the scan goes on: the request does not end with an exception, no
\* malformed row is returned, every well-formed row of the query's dimension
\* is scored, and when fewer than topK entries are returned every such row that
\* passes the threshold (and is selected, if ids were selected) is among them.
C13_MalformedRowSkipped ==
    (Admitted /\ OnJsonPath /\ req.fault = "none" /\ MalformedRows # {}) =>
        /\ resp.raised = ""
        /\ Ids(Output) \cap MalformedRows = {}
        /\ Occurrences("score") >= Cardinality(WellFormedRows)
        /\ Len(Output) < req.topK =>
              \A i \in WellFormedRows :
                  ( /\ SimAtLeast(cosine_similarity(QueryVector, db.rows[i].vj.v),
                                  ThresholdInForce)
                    /\ (req.sel = {} \/ i \in req.sel) )
                  => i \in Ids(Output)

\* C14: with the query, the threshold and the stored data unchanged, a chat
\* that follows a response offering suggestions and selects some of the offered
\* ids has every selected id among its sources.
C14_OfferedSelectedAreUsed ==
    [][ ( /\ pc = "done" /\ pc' = "done"
          /\ req'.op = "chat" /\ req'.sel # {}
          /\ req'.sel \subseteq Ids(resp.suggestions)
          /\ req'.thr = req.thr /\ req'.via = req.via )
        => req'.sel \subseteq Ids(resp'.sources) ]_vars

\* The number of events e among the first n events.
OccurrencesBefore(e, n) == Cardinality({j \in 1..(n - 1) : events[j] = e})

\* C15: in every chat, on either path, the connection opened for the retrieval
\* has been closed when the LLM is invoked: before each "llm" event every
\* "connect" of the request is matched by a "close".
C15_ConnectionReleasedBeforeSynthesis ==
    (Done /\ req.op = "chat") =>
        \A i \in DOMAIN events :
            events[i] = "llm" =>
                OccurrencesBefore("close", i) = OccurrencesBefore("connect", i)

\* C16: when the embedding of the query fails or yields no vector, chat and
\* search_suggestions return an explicit error result, open no connection and
\* do not invoke the LLM, and /chat and /chat/suggestions hand that result to
\* the caller as a response with the error field, not as an exception.
C16_EmbeddingFailureIsErrorResult ==
    (Done /\ req.op \in {"chat", "suggestions"} /\ req.fault = "embed") =>
        /\ resp.error = "embedding_failed"
        /\ resp.raised = ""
        /\ Occurrences("connect") = 0
        /\ Occurrences("llm") = 0
        /\ resp.results = <<>> /\ resp.suggestions = <<>> /\ resp.sources = <<>>

\* C17: when the retrieval of a chat found at least one source and the LLM call
\* then fails, the chat ends with a synthesis error and still returns the
\* retrieved sources.
C17_SynthesisFailureKeepsSources ==
    (Done /\ req.op = "chat" /\ req.fault = "llm" /\ Occurrences("llm") > 0) =>
        /\ resp.raised = ""
        /\ resp.error # ""
        /\ resp.sources # <<>>

\* C18: a search_vector request without a body, without 'query', or with a
\* query that is empty or not a string is answered 400 before anything is
\* embedded, connected to or read; an empty query sent to /chat is turned down
\* before RAGServiceSQL.chat is called.
C18_InvalidRequestRejected ==
    (Done /\ req.query # "text" /\ req.op \in {"search_vector", "chat"}) =>
        /\ events = <<>>
        /\ resp.results = <<>> /\ resp.sources = <<>>
        /\ req.op = "search_vector" => resp.http = 400
        /\ req.op = "chat" => (resp.http = 422 /\ resp.answer = "")

\* The candidates that pass the threshold the caller sent.
PassingCallerThreshold == {c \in Candidates : SimAtLeast(c.sim, req.thr)}

\* C19: the threshold and the topK that chat and search_suggestions apply are
\* the ones the caller sent, for every threshold in [0, 1] (0 included) and
\* every topK: when fewer than topK entries come back, every candidate at or
\* above the caller's threshold (and selected, if ids were selected) is among
\* them, and nothing below the caller's threshold is.
C19_CallerThresholdAndTopK ==
    (Admitted /\ Completed /\ Retrieved /\ req.op \in {"chat", "suggestions"}) =>
        /\ ServiceArgs(req).topK = req.topK
        /\ \A c \in Range(Output) : SimAtLeast(c.sim, req.thr)
        /\ Len(Output) < req.topK =>
              \A c \in PassingCallerThreshold :
                  (req.sel = {} \/ c.id \in req.sel) => c \in Range(Output)

\* C20: cosine_similarity (app.py) and RAGServiceSQL._cosine_similarity return
\* 0.0 whenever the two vectors differ in length, an empty one included (the
\* comparison of the lengths is their first statement: nothing can raise).
C20_LengthMismatchIsZero ==
    (call.returned /\ Len(call.vec1) # Len(call.vec2)) => call.ret.ss = 0

\* A call with two vectors of different lengths whose common components are
\* parallel has returned 0.0.
C20_Witness ==
    /\ call.returned
    /\ call.vec1 = <<1>> /\ call.vec2 = <<1, 1>>
    /\ call.ret.ss = 0

\* Every component of v is 0 (so is it for the empty vector).
IsZeroVector(v) == \A i \in DOMAIN v : v[i] = 0

\* -v
Negated(v) == [i \in DOMAIN v |-> 0 - v[i]]

\* C21: for two vectors of equal length of which one has zero magnitude (all
\* its components are 0, or both vectors are empty) the scorers return 0.0 and
\* divide by nothing that is zero: the divisor of the returned quotient is
\* not 0.
C21_ZeroMagnitudeIsZero ==
    ( /\ call.returned
      /\ Len(call.vec1) = Len(call.vec2)
      /\ (IsZeroVector(call.vec1) \/ IsZeroVector(call.vec2)) )
    => (call.ret.ss = 0 /\ call.ret.d # 0)

\* A call with the zero vector and a non-zero vector of the same length has
\* returned.
C21_Witness ==
    /\ call.returned
    /\ call.vec1 = <<0, 0>> /\ call.vec2 = <<1, 1>>
    /\ call.ret.ss = 0

\* C22: for every non-zero vector v with integer components the scorers give
\* 1.0 for (v, v) and -1.0 for (v, -v): the square of the dot product equals
\* the product of the squared magnitudes, and the result has the sign of the
\* dot product.
C22_SelfAndOpposite ==
    (call.returned /\ ~IsZeroVector(call.vec1)) =>
        /\ call.vec2 = call.vec1 => (call.ret.ss = call.ret.d /\ call.ret.d > 0)
        /\ call.vec2 = Negated(call.vec1) =>
              (call.ret.ss = 0 - call.ret.d /\ call.ret.d > 0)

\* The scorer has returned for a vector and its opposite.
C22_Witness ==
    /\ call.returned
    /\ call.vec1 = <<1, -1>> /\ call.vec2 = <<-1, 1>>
    /\ call.ret.ss = 0 - call.ret.d

\* C23: search_suggestions reports has_multiple_suggestions = true exactly when
\* it returns at least min_suggestions suggestions (all of them pass the
\* threshold in force), reports total_found as their number, and invokes the
\* LLM on no path.
C23_SuggestionsSummary ==
    (Done /\ req.op = "suggestions") =>
        /\ resp.has_multiple_suggestions <=> (Len(resp.suggestions) >= req.minSug)
        /\ resp.total_found = Len(resp.suggestions)
        /\ \A c \in Range(resp.suggestions) : SimAtLeast(c.sim, ThresholdInForce)
        /\ Occurrences("llm") = 0
        /\ resp.answer = ""

\* search_suggestions returned exactly min_suggestions suggestions.
C23_Witness ==
    /\ Done /\ req.op = "suggestions" /\ req.minSug > 0
    /\ Len(resp.suggestions) = req.minSug
    /\ resp.has_multiple_suggestions

\* C24: every list of suggestions returned to a caller, by the suggestions
\* block of chat or by search_suggestions, holds at most MaxSuggestionsChat (10)
\* suggestions, and they are the highest-ranked candidates passing the
\* threshold, in rank order.
C24_AtMostTenSuggestions ==
    (Done /\ req.op \in {"chat", "suggestions"}) =>
        /\ Len(resp.suggestions) <= MaxSuggestionsChat
        /\ IsSortedDesc(resp.suggestions)
        /\ Range(resp.suggestions) \subseteq PassingCandidates
        /\ \A c \in PassingCandidates \ Range(resp.suggestions) :
              \A u \in Range(resp.suggestions) : SimAtLeast2(u.sim, c.sim)

\* The candidates of search_vector's VectorJson path among the rows S: the
\* rows with a non-empty VectorJson of the query's dimension whose similarity
\* is at least the caller's threshold.
JsonEligible(S) ==
    {c \in JsonCandidates : c.id \in S /\ SimAtLeast(c.sim, req.thr)}

\* results are the topN best of the candidates E.
IsTopNOf(E) ==
    /\ Range(resp.results) \subseteq E
    /\ Len(resp.results) = Min(req.topK, Cardinality(E))
    /\ IsSortedDesc(resp.results)
    /\ \A c \in E \ Range(resp.results) :
          \A u \in Range(resp.results) : SimAtLeast2(u.sim, c.sim)

\* The rows the VectorJson query of search_vector reads: the first
\* OversampleSearchVector * topN rows whose VectorJson is not NULL.
RowsReadByJsonQuery ==
    {i \in DOMAIN db.rows :
        /\ db.rows[i].vj.k # "null"
        /\ Cardinality({j \in 1..i : db.rows[j].vj.k # "null"})
              <= OversampleSearchVector * req.topK}

\* C29 as stated: on the VectorJson path of search_vector the results are the
\* topN highest-similarity rows among all rows of the table that have a
\* non-null VectorJson of the query's dimension and pass the threshold,
\* whatever the size of the table.
C29_TopNOfWholeTable ==
    (Completed /\ req.op = "search_vector" /\ OnJsonPath) =>
        IsTopNOf(JsonEligible(DOMAIN db.rows))

\* C29, amended: on the VectorJson path of search_vector the results are the
\* topN highest-similarity rows among the rows the query read, the first
\* 4 * topN rows with a non-null VectorJson, that have the query's dimension
\* and pass the threshold.
C29_TopNOfRowsRead ==
    (Completed /\ req.op = "search_vector" /\ OnJsonPath) =>
        IsTopNOf(JsonEligible(RowsReadByJsonQuery))

\* A table longer than the query reads, whose best row lies beyond the rows
\* read and is not returned.
C29_Witness ==
    /\ Completed /\ req.op = "search_vector" /\ OnJsonPath
    /\ resp.results # <<>>
    /\ \E c \in JsonEligible(DOMAIN db.rows \ RowsReadByJsonQuery) :
          \A u \in Range(resp.results) : ~SimAtLeast2(u.sim, c.sim)

\* The number of times the connection was closed.
Closes == Cardinality({i \in DOMAIN events : events[i] = "close"})

\* The connection was opened.
Opened == \E i \in DOMAIN events : events[i] = "connect"

RetrievalPosition(id) == CHOOSE i \in DOMAIN db.rows : db.rows[i].id = id

\* Two entries of the output have the same similarity.
Tied(i, j) ==
    /\ SimAtLeast2(Output[i].sim, Output[j].sim)
    /\ SimAtLeast2(Output[j].sim, Output[i].sim)

\* C27: on the VectorJson path, entries of the output that have the same
\* similarity stand in the order their rows were retrieved in (the sort is
\* stable), so the output is fixed by the rows and their retrieval order.
C27_TiesKeepRetrievalOrder ==
    (Done /\ OnJsonPath) =>
        \A i, j \in DOMAIN Output :
            (i < j /\ Tied(i, j)) =>
                RetrievalPosition(Output[i].id) < RetrievalPosition(Output[j].id)

\* An output of the VectorJson path with two entries of the same similarity.
C27_Witness ==
    /\ Done /\ OnJsonPath
    /\ \E i, j \in DOMAIN Output : i < j /\ Tied(i, j)

\* The ids of a list, in its order.
IdSeq(s) == [i \in DOMAIN s |-> s[i].id]

\* Every chunk of the table holds the same thing in its Embedding and in its
\* VectorJson.
IdenticallyPopulated ==
    /\ db.sch.exists /\ db.sch.embType = "vector" /\ db.sch.hasVJ
    /\ \A i \in DOMAIN db.rows : db.rows[i].emb = db.rows[i].vj

\* The same chunks behind a table that has no Embedding column.
WithoutEmbeddingColumn ==
    [sch  |-> [db.sch EXCEPT !.embType = "none"],
     rows |-> [i \in DOMAIN db.rows |-> [db.rows[i] EXCEPT !.emb = NullV]]]

\* What chat answers to the request over the same chunks on the VectorJson
\* path.
OnPathB == chat(WithoutEmbeddingColumn, ServiceArgs(req), <<>>).resp

\* C25: for the same query, threshold, topK, return_suggestions and selected
\* ids over identically populated chunks, a chat on the VECTOR_DISTANCE path
\* returns the sources (same ids, same order) and makes the suggestion
\* decision that chat makes on the VectorJson path.
C25_PathsAgree ==
    (Completed /\ req.op = "chat" /\ OnNativePath /\ IdenticallyPopulated) =>
        /\ IdSeq(resp.sources) = IdSeq(OnPathB.sources)
        /\ resp.block = OnPathB.block

\* The text of the sheet row a stored row came from.
OwnText(r) == imp.sheet[r.RowIndex + 1].text

\* C30: every row import_excel_file inserted holds the CombinedText of its own
\* sheet row and the embedding of that text, or NULL for both when the text is
\* empty, also when cleaning dropped rows from the middle of the sheet and
\* when some texts of a batch are empty.
C30_RowsKeepOwnTextAndEmbedding ==
    imp.returned =>
        \A i \in DOMAIN imp.table :
            LET r == imp.table[i]
                t == OwnText(r)
            IN /\ r.CombinedText = (IF t = "" THEN NullText ELSE t)
               /\ r.VectorJson = (IF t = "" THEN NoEmbedding ELSE EmbeddingOf(t))
               /\ imp.has_vector_column => r.Embedding = r.VectorJson

\* The chunks that hold a vector of the query's dimension in at least one
\* representation, and the chunks that hold none in either.
HasNativeVector(i) == db.rows[i].emb.k = "vec"
HasJsonVector(i) ==
    db.rows[i].vj.k = "vec" /\ Len(db.rows[i].vj.v) = Len(QueryVector)
SearchableChunks == {i \in DOMAIN db.rows : HasNativeVector(i) \/ HasJsonVector(i)}
ChunksWithNeither ==
    {i \in DOMAIN db.rows : db.rows[i].emb.k = "null" /\ db.rows[i].vj.k = "null"}

\* The similarity of a searchable chunk to the query.
ChunkSim(i) ==
    IF HasNativeVector(i) THEN cosine_similarity(db.rows[i].emb.v, QueryVector)
    ELSE cosine_similarity(QueryVector, db.rows[i].vj.v)

\* Chunk i passes the caller's threshold and fewer than topK other searchable
\* chunks are at least as similar as it is.
RanksWithinTopK(i) ==
    /\ SimAtLeast(ChunkSim(i), req.thr)
    /\ Cardinality({j \in SearchableChunks \ {i} :
                        SimAtLeast2(ChunkSim(j), ChunkSim(i))}) < req.topK

\* C26, first half: a chunk with no native vector and no JSON vector is never
\* returned by search_vector and does not make the search fail.
C26_NeitherIsSkipped ==
    (Admitted /\ req.op = "search_vector" /\ req.fault = "none"
        /\ SearchVectorUsable /\ ChunksWithNeither # {}
        /\ MalformedRows = {} /\ MismatchedRows = {}) =>
        /\ resp.raised = "" /\ resp.http = 200
        /\ \A i \in ChunksWithNeither : db.rows[i].id \notin Ids(resp.results)

\* C26: in search_vector a chunk with neither representation is skipped
\* without failing the search, and a chunk with a populated JSON vector and a
\* NULL native vector, in a table that has the native vector column, is in the
\* results when it passes the threshold and ranks within topK.
C26_JsonOnlyChunkRetrievable ==
    /\ C26_NeitherIsSkipped
    /\ (Admitted /\ req.op = "search_vector" /\ req.fault = "none"
          /\ db.sch.exists /\ db.sch.embType = "vector" /\ db.sch.hasVJ) =>
          \A i \in DOMAIN db.rows :
              (~HasNativeVector(i) /\ HasJsonVector(i) /\ RanksWithinTopK(i)) =>
                  db.rows[i].id \in Ids(resp.results)

====
